---- MODULE Spec2Model ----
(***************************************************************************)
(* Model of marketing_forecast.py: the two forecasting functions           *)
(* (forecast_leads, forecast_incremental) and the two JSON POST handlers   *)
(* (api_forecast, api_forecast_incremental).                               *)
(*                                                                         *)
(* Number representation.  Python floats are modelled as fixed-point       *)
(* integers, each quantity in the unit noted at its definition:            *)
(*   money, leads, visits (inputs)   whole units                           *)
(*   spend_change_percent (input)    hundredths of a percent               *)
(*   elasticity                      hundredths                            *)
(*   period_days (input)             tenths of a day                       *)
(*   multipliers                     1/Scale                               *)
(*   round(x, 2) outputs             hundredths                            *)
(*   round(x, 1) outputs             tenths                                *)
(* Quotients are carried as exact fractions up to the final round(),       *)
(* except the multipliers, which are rounded to 1/Scale; the power         *)
(* m ** e is evaluated to 1/Scale with e taken to 8 binary digits.         *)
(* Inputs are finite numbers (no NaN or infinity).                         *)
(***************************************************************************)
EXTENDS Integers, Sequences, FiniteSets, TLC

VARIABLES op, req, resp

vars == <<op, req, resp>>

(***************************************************************************)
(* Bounds of the input grids.                                              *)
(***************************************************************************)
MaxSpend == 100
MaxLeads == 50
MaxBudget == 100
MaxCpa == 10
MaxFunds == 20
MaxVisits == 40
MaxPeriod == 10

\* Fixed-point scale of the spend and lead multipliers.
Scale == 10 ^ 4

(***************************************************************************)
(* Arithmetic helpers.                                                     *)
(***************************************************************************)
Max(a, b) == IF a >= b THEN a ELSE b
Min(a, b) == IF a <= b THEN a ELSE b

\* Decimal long division: k further digits of the quotient q, remainder r.
RECURSIVE LongDiv(_, _, _, _)
LongDiv(q, r, d, k) ==
    IF k = 0 THEN <<q, r>>
    ELSE LongDiv(10 * q + (10 * r) \div d, (10 * r) % d, d, k - 1)

RoundToPos(n, d, k) ==
    LET qr == LongDiv(n \div d, n % d, d, k)
        q == qr[1]
        r == qr[2]
    IN  IF 2 * r < d THEN q
        ELSE IF 2 * r > d THEN q + 1
        ELSE IF q % 2 = 0 THEN q ELSE q + 1

\* round(n / d, k): the fraction n/d (d # 0) rounded to k decimals, ties to
\* even, in units of 10^-k.
RoundTo(n, d, k) == IF d > 0 THEN RoundToPos(n, d, k) ELSE RoundToPos(-n, -d, k)

RECURSIVE SqrtIter(_, _, _)
SqrtIter(x, lo, hi) ==
    IF lo >= hi THEN lo
    ELSE LET mid == (lo + hi + 1) \div 2
         IN  IF mid * mid <= x THEN SqrtIter(x, mid, hi)
             ELSE SqrtIter(x, lo, mid - 1)

\* Square root of x >= 0 rounded to the nearest integer.
RSqrt(x) ==
    LET r == SqrtIter(x, 0, Min(x, 46000))
    IN  IF x - r * r > r THEN r + 1 ELSE r

\* m ^ (k / 256) for m >= 0 in 1/Scale, by the binary digits of k from the
\* least significant up: x <- sqrt(m * x) on a 1 digit, sqrt(x) on a 0 digit.
RECURSIVE PowBits(_, _, _, _)
PowBits(m, k, bit, x) ==
    IF bit > 128 THEN x
    ELSE LET take == (k \div bit) % 2 = 1
         IN  PowBits(m, k, 2 * bit, RSqrt((IF take THEN m ELSE Scale) * x))

\* Python's float ** float: m in 1/Scale, e in hundredths (0 < e).
\* A negative base with a non-integer exponent gives a complex number;
\* with exponent 1.0 the result is the base.
Pow(m, e) ==
    IF e = 100 THEN [complex |-> FALSE, v |-> m]
    ELSE IF m < 0 THEN [complex |-> TRUE, v |-> 0]
    ELSE [complex |-> FALSE, v |-> PowBits(m, RoundTo(e * 256, 100, 0), 1, Scale)]

\* Faulty variants of the clamp: none at all; upper limit 0.9.
ClampElasticity_None(e) == e
ClampElasticity_Upper90(e) == Max(50, Min(90, e))

\* max(0.5, min(1.0, float(elasticity))), in hundredths.
ClampElasticity(e) == Max(50, Min(100, e))

\* Faulty variants of the multiplier: the leading 1 dropped; the sign flipped.
SpendMultiplier_NoBase(spend_change_percent) == spend_change_percent
SpendMultiplier_Minus(spend_change_percent) == Scale - spend_change_percent

\* spend_multiplier = 1 + (spend_change_percent / 100), in 1/Scale.
SpendMultiplier(spend_change_percent) == Scale + spend_change_percent

\* Faulty variant of the efficiency factor: scaled by 1000 instead of 100.
EfficiencyFactor_PerMille(n, d) ==
    LET nn == IF d > 0 THEN n ELSE -n
        dd == IF d > 0 THEN d ELSE -d
    IN  IF nn <= 0 THEN 0
        ELSE IF nn >= 2 * dd THEN 20000
        ELSE RoundTo(1000 * nn, dd, 1)

\* round(max(0.0, min(2.0, n/d)) * 100, 1) in tenths of a percent (d # 0).
EfficiencyFactor(n, d) ==
    LET nn == IF d > 0 THEN n ELSE -n
        dd == IF d > 0 THEN d ELSE -d
    IN  IF nn <= 0 THEN 0
        ELSE IF nn >= 2 * dd THEN 2000
        ELSE RoundTo(100 * nn, dd, 1)

(***************************************************************************)
(* Outcome of a Python call: a returned value or a raised exception.       *)
(***************************************************************************)
Return(val) == [exc |-> "none", val |-> val]
Raise(exc, msg) == [exc |-> exc, val |-> [error |-> msg]]

(***************************************************************************)
(* forecast_leads(current_spend, current_leads, spend_change_percent,      *)
(*                elasticity)                                              *)
(***************************************************************************)
forecast_leads(current_spend, current_leads, spend_change_percent, elasticity_arg) ==
    LET elasticity == ClampElasticity(elasticity_arg)
        spend_multiplier == SpendMultiplier(spend_change_percent)
        lead_multiplier == Pow(spend_multiplier, elasticity)
    IN  IF lead_multiplier.complex
        THEN \* min(2.0, <complex>) at the efficiency clamp
             Raise("TypeError", "'<' not supported between instances of 'complex' and 'float'")
        ELSE
        LET lm == lead_multiplier.v
            \* new_leads = current_leads * lm / Scale
            new_leads_pos == current_leads * lm > 0
            current_cpl_pos == current_leads > 0 /\ current_spend > 0
            efficiency_factor ==
                IF spend_change_percent = 0 THEN 1000
                ELSE EfficiencyFactor(lm - Scale, spend_multiplier - Scale)
            lead_change_percent ==
                IF spend_change_percent = 0 THEN 0
                ELSE RoundTo((lm - Scale) * 100, Scale, 2)
            current_cpl ==
                IF current_leads > 0
                THEN RoundTo(current_spend, current_leads, 2) ELSE 0
            new_cpl ==
                IF new_leads_pos
                THEN RoundTo(current_spend * spend_multiplier, current_leads * lm, 2)
                ELSE 0
            \* (new_cpl - current_cpl) / current_cpl * 100
            \*   = (spend_multiplier / lm - 1) * 100 when new_leads > 0,
            \*   = -100 when new_cpl = 0
            cpl_change ==
                IF ~current_cpl_pos THEN 0
                ELSE IF new_leads_pos
                     THEN RoundTo(100 * (spend_multiplier - lm), lm, 2)
                     ELSE -10000
        IN  Return([
              current_spend |-> 100 * current_spend,
              current_leads |-> 100 * current_leads,
              current_cpl |-> current_cpl,
              spend_change_percent |-> spend_change_percent,
              new_spend |-> RoundTo(current_spend * spend_multiplier, Scale, 2),
              spend_change_absolute |->
                  RoundTo(current_spend * (spend_multiplier - Scale), Scale, 2),
              efficiency_factor |-> efficiency_factor,
              lead_change_percent |-> lead_change_percent,
              new_leads |-> RoundTo(current_leads * lm, Scale, 2),
              leads_change_absolute |->
                  RoundTo(current_leads * (lm - Scale), Scale, 2),
              new_cpl |-> new_cpl,
              cpl_change_percent |-> cpl_change,
              elasticity |-> elasticity ])

(***************************************************************************)
(* forecast_incremental(current_budget, current_cpa, additional_funds,     *)
(*                      elasticity, current_visits)                        *)
(* additional_funds is the fraction n/d (d >= 1); current_visits is Null   *)
(* (None) or Num(v).                                                       *)
(***************************************************************************)
Frac(n, d) == [n |-> n, d |-> d]

forecast_incremental(current_budget, current_cpa, additional_funds, elasticity_arg, current_visits) ==
    LET elasticity == ClampElasticity(elasticity_arg)
        n == additional_funds.n
        d == additional_funds.d
    IN  IF current_cpa <= 0
        THEN Raise("ValueError", "Current CPA must be greater than 0")
        ELSE IF current_budget = 0
        THEN \* spend_multiplier = new_spend / current_budget
             Raise("ZeroDivisionError", "float division by zero")
        ELSE
        LET \* new_spend = (current_budget * d + n) / d
            new_spend_n == current_budget * d + n
            spend_multiplier == RoundTo(new_spend_n, current_budget * d, 4)
            lead_multiplier == Pow(spend_multiplier, elasticity)
        IN  IF lead_multiplier.complex
            THEN \* <complex> > 0 at the new_cpa guard
                 Raise("TypeError", "'>' not supported between instances of 'complex' and 'int'")
            ELSE
            LET lm == lead_multiplier.v
                \* new_leads = current_budget * lm / (current_cpa * Scale)
                new_leads_pos == current_budget * lm > 0
                new_cpa ==
                    IF new_leads_pos
                    THEN RoundTo(new_spend_n * current_cpa * Scale,
                                 d * current_budget * lm, 2)
                    ELSE 0
                \* (new_cpa - current_cpa) / current_cpa * 100
                cpl_change ==
                    IF new_leads_pos
                    THEN RoundTo(100 * (new_spend_n * Scale - d * current_budget * lm),
                                 d * current_budget * lm, 2)
                    ELSE -10000
                \* spend_change_percent = n / (d * current_budget) * 100, or 0
                spend_change_zero == ~(current_budget > 0) \/ n = 0
                efficiency_factor ==
                    IF spend_change_zero THEN 1000
                    ELSE EfficiencyFactor((lm - Scale) * d * current_budget, Scale * n)
                out == [
                  current_budget |-> 100 * current_budget,
                  current_cpa |-> 100 * current_cpa,
                  current_leads |-> RoundTo(current_budget, current_cpa, 2),
                  additional_funds |-> RoundTo(n, d, 2),
                  new_spend |-> RoundTo(new_spend_n, d, 2),
                  incremental_leads |->
                      RoundTo(current_budget * (lm - Scale), current_cpa * Scale, 2),
                  new_leads |-> RoundTo(current_budget * lm, current_cpa * Scale, 2),
                  lead_change_percent |-> RoundTo((lm - Scale) * 100, Scale, 2),
                  new_cpa |-> new_cpa,
                  cpl_change_percent |-> cpl_change,
                  efficiency_factor |-> efficiency_factor,
                  elasticity |-> elasticity ]
            IN  IF current_visits.k = "num" /\ current_visits.v > 0
                THEN LET v == current_visits.v
                         \* new_visits = v * spend_multiplier / Scale
                         new_visits_pos == v * spend_multiplier > 0
                     IN  Return(out @@ [
                           current_conversion_rate |->
                               RoundTo(100 * current_budget, current_cpa * v, 2),
                           new_conversion_rate |->
                               IF new_visits_pos
                               THEN RoundTo(100 * current_budget * lm,
                                            current_cpa * v * spend_multiplier, 2)
                               ELSE 0,
                           current_visits |-> v,
                           new_visits |-> RoundTo(v * spend_multiplier, Scale, 0) ])
                ELSE Return(out)

(***************************************************************************)
(* JSON values of a request body.                                          *)
(***************************************************************************)
Num(n) == [k |-> "num", v |-> n]
Absent == [k |-> "absent", v |-> 0]    \* key not in the body
Null == [k |-> "null", v |-> 0]        \* JSON null (None)
Str == [k |-> "str", v |-> 0]          \* a non-numeric string such as "abc"
Empty == [k |-> "empty", v |-> 0]      \* the empty string ""
List == [k |-> "list", v |-> 0]        \* a JSON array

\* float(x) for a JSON value x.
ToFloat(x) ==
    CASE x.k = "num" -> Return(x.v)
      [] x.k \in {"str", "empty"} ->
            Raise("ValueError", "could not convert string to float")
      [] OTHER ->
            Raise("TypeError", "float() argument must be a string or a real number")

\* float(data.get(key, 0))
GetFloat(x) == IF x.k = "absent" THEN Return(0) ELSE ToFloat(x)

\* data.get('elasticity'); float() if not None, else 0.82
GetElasticity(x) == IF x.k \in {"absent", "null"} THEN Return(82) ELSE ToFloat(x)

Http(status, body) == [status |-> status, body |-> body]

\* Faulty variant of the validation test: zero accepted.
NonPositive_Strict(x) == x < 0

\* The validation tests  x <= 0  of the two handlers.
NonPositive(x) == x <= 0

\* except ValueError -> 400 "Invalid input: ..."; except Exception -> 500
ForecastExcept(r) ==
    IF r.exc = "ValueError" THEN Http(400, [error |-> "Invalid input"])
    ELSE Http(500, [error |-> "An error occurred"])

(***************************************************************************)
(* POST /api/forecast                                                      *)
(***************************************************************************)
api_forecast(data) ==
    LET current_spend == GetFloat(data.current_spend)
        current_leads == GetFloat(data.current_leads)
        spend_change_percent == GetFloat(data.spend_change_percent)
        elasticity == GetElasticity(data.elasticity)
    IN  IF current_spend.exc # "none" THEN ForecastExcept(current_spend)
        ELSE IF current_leads.exc # "none" THEN ForecastExcept(current_leads)
        ELSE IF spend_change_percent.exc # "none" THEN ForecastExcept(spend_change_percent)
        ELSE IF elasticity.exc # "none" THEN ForecastExcept(elasticity)
        ELSE IF NonPositive(current_spend.val)
             THEN Http(400, [error |-> "Current spend must be greater than 0"])
        ELSE IF NonPositive(current_leads.val)
             THEN Http(400, [error |-> "Current leads must be greater than 0"])
        ELSE LET result == forecast_leads(current_spend.val, current_leads.val,
                                          spend_change_percent.val, elasticity.val)
             IN  IF result.exc # "none" THEN ForecastExcept(result)
                 ELSE Http(200, result.val)

\* except ValueError -> 400 str(e); except Exception -> 500
IncrementalExcept(r) ==
    IF r.exc = "ValueError" THEN Http(400, r.val)
    ELSE Http(500, [error |-> "An error occurred"])

\* data.get('current_visits'); float() unless None or '', else None
GetVisits(x) ==
    IF x.k \in {"absent", "null", "empty"} THEN Return(Null)
    ELSE LET f == ToFloat(x) IN IF f.exc # "none" THEN f ELSE Return(Num(f.val))

\* Faulty variant: the total passed to the model undivided.
DailyFunds_Total(total_additional_funds, period_days) ==
    Frac(total_additional_funds, 1)

\* daily_additional_funds = total_additional_funds / period_days
DailyFunds(total_additional_funds, period_days) ==
    Frac(total_additional_funds, period_days)

\* int(x): truncation toward zero of x given in tenths
IntOf(x) == IF x >= 0 THEN x \div 10 ELSE -((-x) \div 10)

\* data.get('period_days'); max(1, int(float())) unless None or '', else 1
GetPeriodDays(x) ==
    IF x.k \in {"absent", "null", "empty"} THEN Return(1)
    ELSE LET f == ToFloat(x)
         IN  IF f.exc # "none" THEN f ELSE Return(Max(1, IntOf(f.val)))

(***************************************************************************)
(* POST /api/forecast-incremental                                          *)
(***************************************************************************)
api_forecast_incremental(data) ==
    LET current_budget == GetFloat(data.current_budget)
        current_cpa == GetFloat(data.current_cpa)
        additional_funds == GetFloat(data.additional_funds)
        elasticity == GetElasticity(data.elasticity)
        current_visits == GetVisits(data.current_visits)
        period_days == GetPeriodDays(data.period_days)
    IN  IF current_budget.exc # "none" THEN IncrementalExcept(current_budget)
        ELSE IF current_cpa.exc # "none" THEN IncrementalExcept(current_cpa)
        ELSE IF additional_funds.exc # "none" THEN IncrementalExcept(additional_funds)
        ELSE IF elasticity.exc # "none" THEN IncrementalExcept(elasticity)
        ELSE IF current_visits.exc # "none" THEN IncrementalExcept(current_visits)
        ELSE IF NonPositive(current_budget.val)
             THEN Http(400, [error |-> "Current budget must be greater than 0"])
        ELSE IF NonPositive(current_cpa.val)
             THEN Http(400, [error |-> "Current CPA must be greater than 0"])
        ELSE IF additional_funds.val < 0
             THEN Http(400, [error |-> "Additional funds cannot be negative"])
        ELSE IF period_days.exc # "none" THEN IncrementalExcept(period_days)
        ELSE LET total_additional_funds == additional_funds.val
                 daily_additional_funds ==
                     DailyFunds(total_additional_funds, period_days.val)
                 result == forecast_incremental(current_budget.val, current_cpa.val,
                                                daily_additional_funds,
                                                elasticity.val, current_visits.val)
             IN  IF result.exc # "none" THEN IncrementalExcept(result)
                 ELSE Http(200, result.val @@ [
                        period_days |-> period_days.val,
                        total_additional_funds |-> 100 * total_additional_funds,
                        daily_additional_funds |->
                            RoundTo(daily_additional_funds.n,
                                    daily_additional_funds.d, 2) ])

(***************************************************************************)
(* Input grids.                                                            *)
(***************************************************************************)
NonNumbers == {Absent, Null, Str, Empty, List}
Nums(S) == {Num(n) : n \in S}

SpendVals == {-1, 0, 1, MaxSpend}
LeadsVals == {-1, 0, 1, MaxLeads}
\* hundredths of a percent: -150%, -100%, -50%, 0, 0.5%, 10%, 50%, 100%
PctVals == {-15000, -10000, -5000, 0, 50, 1000, 5000, 10000}
\* hundredths: 0.1, 0.5, 0.75, 0.82, 1.0, 5.0
ElasticityVals == {10, 50, 75, 82, 100, 500}

ForecastBodies ==
    [current_spend : NonNumbers \cup Nums(SpendVals),
     current_leads : NonNumbers \cup Nums(LeadsVals),
     spend_change_percent : {Absent, Null, Str} \cup Nums(PctVals),
     elasticity : {Absent, Null, Str, Empty} \cup Nums(ElasticityVals)]

ForecastArgs ==
    [current_spend : SpendVals, current_leads : LeadsVals,
     spend_change_percent : PctVals, elasticity : ElasticityVals]

BudgetVals == {-10, 0, 10, MaxBudget}
CpaVals == {-1, 0, 1, MaxCpa}
FundsVals == {-1, 0, 1, MaxFunds}
\* tenths of a day: -3.5, 0.5, 2.5, 3, MaxPeriod
PeriodVals == {-35, 5, 25, 30, 10 * MaxPeriod}

IncrementalBodies ==
    [current_budget : {Absent, Null, Str} \cup Nums(BudgetVals),
     current_cpa : {Absent, Null, Str} \cup Nums(CpaVals \ {-1}),
     additional_funds : {Absent, Null, Str} \cup Nums(FundsVals),
     elasticity : {Absent, Null, Str} \cup Nums({10, 100}),
     current_visits : {Absent, Null, Empty, Str} \cup Nums({0, MaxVisits}),
     period_days : {Absent, Empty, Str, List} \cup Nums(PeriodVals)]

IncrementalArgs ==
    [current_budget : BudgetVals, current_cpa : CpaVals,
     additional_funds : FundsVals \cup {-MaxFunds},
     elasticity : ElasticityVals,
     current_visits : {Null, Num(0), Num(MaxVisits)}]

NoReq == [none |-> TRUE]
NoResp == [status |-> 0, body |-> [none |-> TRUE]]

Init ==
    /\ op = "idle"
    /\ req = NoReq
    /\ resp = NoResp

\* A client posts a body to /api/forecast and the handler answers.
ApiForecast ==
    /\ op = "idle"
    /\ \E data \in ForecastBodies :
        /\ req' = data
        /\ resp' = api_forecast(data)
    /\ op' = "api_forecast"

\* A direct call of forecast_leads with numeric arguments.
CallForecastLeads ==
    /\ op = "idle"
    /\ \E a \in ForecastArgs :
        /\ req' = a
        /\ resp' = forecast_leads(a.current_spend, a.current_leads,
                                  a.spend_change_percent, a.elasticity)
    /\ op' = "forecast_leads"

\* A client posts a body to /api/forecast-incremental and the handler answers.
ApiForecastIncremental ==
    /\ op = "idle"
    /\ \E data \in IncrementalBodies :
        /\ req' = data
        /\ resp' = api_forecast_incremental(data)
    /\ op' = "api_forecast_incremental"

\* A direct call of forecast_incremental with numeric arguments.
CallForecastIncremental ==
    /\ op = "idle"
    /\ \E a \in IncrementalArgs :
        /\ req' = a
        /\ resp' = forecast_incremental(a.current_budget, a.current_cpa,
                                        Frac(a.additional_funds, 1),
                                        a.elasticity, a.current_visits)
    /\ op' = "forecast_incremental"

\* The response has been sent; nothing is retained between requests.
Finish ==
    /\ op # "idle"
    /\ op' = "idle"
    /\ req' = NoReq
    /\ resp' = NoResp

Next ==
    \/ ApiForecast
    \/ CallForecastLeads
    \/ ApiForecastIncremental
    \/ CallForecastIncremental
    \/ Finish

Spec == Init /\ [][Next]_vars

(***************************************************************************)
(* Vocabulary of the properties.                                           *)
(***************************************************************************)
IsNum(x) == x.k = "num"
\* value of a required field after data.get(key, 0)
ValueOr0(x) == IF x.k = "absent" THEN 0 ELSE x.v
\* a supplied value that cannot be converted to a number
Unconvertible(x) == x.k \in {"null", "str", "list"}
RequiredParses(x) == x.k \in {"num", "absent"}
ElasticityParses(x) == x.k \in {"num", "absent", "null"}
OptionalParses(x) == x.k \in {"num", "absent", "null", "empty"}

IsErrorBody(b) == DOMAIN b = {"error"}

ForecastParses ==
    /\ RequiredParses(req.current_spend)
    /\ RequiredParses(req.current_leads)
    /\ RequiredParses(req.spend_change_percent)
    /\ ElasticityParses(req.elasticity)

IncrementalParses ==
    /\ RequiredParses(req.current_budget)
    /\ RequiredParses(req.current_cpa)
    /\ RequiredParses(req.additional_funds)
    /\ ElasticityParses(req.elasticity)
    /\ OptionalParses(req.current_visits)
    /\ OptionalParses(req.period_days)

ForecastInRange ==
    /\ ValueOr0(req.current_spend) > 0
    /\ ValueOr0(req.current_leads) > 0

IncrementalInRange ==
    /\ ValueOr0(req.current_budget) > 0
    /\ ValueOr0(req.current_cpa) > 0
    /\ ValueOr0(req.additional_funds) >= 0

(***************************************************************************)
(* C1.  Every POST /api/forecast with current_spend > 0, current_leads > 0 *)
(* and spend_change_percent <= -100 is answered 400 with an error body,    *)
(* never 200 and never 500, whatever the elasticity.                       *)
(* The handler has no such check: it answers 200 (multiplier 0, or a       *)
(* negative multiplier with elasticity 1.0) or 500 (complex power).        *)
(***************************************************************************)
C1_NonPositiveMultiplierIs400 ==
    ( /\ op = "api_forecast"
      /\ IsNum(req.current_spend) /\ req.current_spend.v > 0
      /\ IsNum(req.current_leads) /\ req.current_leads.v > 0
      /\ IsNum(req.spend_change_percent)
      /\ req.spend_change_percent.v <= -10000 )
    => (resp.status = 400 /\ IsErrorBody(resp.body))

(***************************************************************************)
(* C2.  A request whose numeric fields all parse is answered 400 with an   *)
(* error body, and no forecast, when a required field is out of range      *)
(* (current_spend <= 0 or current_leads <= 0; current_budget <= 0,         *)
(* current_cpa <= 0 or additional_funds < 0; an absent field counts as 0); *)
(* and a 200 answer is given only when all of them are in range.           *)
(***************************************************************************)
C2_OutOfRangeIs400 ==
    /\ (op = "api_forecast" /\ ForecastParses /\ ~ForecastInRange)
          => (resp.status = 400 /\ IsErrorBody(resp.body))
    /\ (op = "api_forecast" /\ resp.status = 200)
          => (ForecastInRange /\ ~IsErrorBody(resp.body))
    /\ (op = "api_forecast_incremental" /\ IncrementalParses /\ ~IncrementalInRange)
          => (resp.status = 400 /\ IsErrorBody(resp.body))
    /\ (op = "api_forecast_incremental" /\ resp.status = 200)
          => (IncrementalInRange /\ ~IsErrorBody(resp.body))

C2_Witness ==
    /\ op = "api_forecast_incremental"
    /\ IncrementalParses
    /\ req.current_budget = Num(MaxBudget)
    /\ req.current_cpa = Num(MaxCpa)
    /\ req.additional_funds = Num(-1)
    /\ resp.status = 400

(***************************************************************************)
(* C3.  On both POST endpoints a request with a supplied field that cannot *)
(* be converted to a number (a non-numeric string, a JSON null, ...) is    *)
(* answered 400 with an error body, and 500 is answered only for failures  *)
(* that are neither an out-of-range required field nor a coercion failure. *)
(* float(None) raises TypeError, which the handlers answer with 500.       *)
(***************************************************************************)
C3_CoercionFailureIs400 ==
    /\ ( /\ op = "api_forecast"
         /\ \/ Unconvertible(req.current_spend)
            \/ Unconvertible(req.current_leads)
            \/ Unconvertible(req.spend_change_percent)
            \/ Unconvertible(req.elasticity) )
       => (resp.status = 400 /\ IsErrorBody(resp.body))
    /\ ( /\ op = "api_forecast_incremental"
         /\ \/ Unconvertible(req.current_budget)
            \/ Unconvertible(req.current_cpa)
            \/ Unconvertible(req.additional_funds)
            \/ Unconvertible(req.elasticity)
            \/ Unconvertible(req.current_visits)
            \/ Unconvertible(req.period_days) )
       => (resp.status = 400 /\ IsErrorBody(resp.body))
    /\ (op = "api_forecast" /\ resp.status = 500)
       => ( /\ ~Unconvertible(req.current_spend)
            /\ ~Unconvertible(req.current_leads)
            /\ ~Unconvertible(req.spend_change_percent)
            /\ ~Unconvertible(req.elasticity) )
    /\ (op = "api_forecast_incremental" /\ resp.status = 500)
       => ( /\ ~Unconvertible(req.current_budget)
            /\ ~Unconvertible(req.current_cpa)
            /\ ~Unconvertible(req.additional_funds)
            /\ ~Unconvertible(req.elasticity)
            /\ ~Unconvertible(req.current_visits)
            /\ ~Unconvertible(req.period_days) )

(***************************************************************************)
(* C4.  Called directly, forecast_leads raises ValueError whenever         *)
(* current_spend <= 0 or current_leads <= 0, and forecast_incremental      *)
(* raises ValueError whenever current_budget <= 0 or current_cpa <= 0.     *)
(* forecast_leads has no validation, and forecast_incremental checks only  *)
(* current_cpa.                                                            *)
(***************************************************************************)
C4_FunctionsValidate ==
    /\ ( /\ op = "forecast_leads"
         /\ (req.current_spend <= 0 \/ req.current_leads <= 0) )
       => resp.exc = "ValueError"
    /\ ( /\ op = "forecast_incremental"
         /\ (req.current_budget <= 0 \/ req.current_cpa <= 0) )
       => resp.exc = "ValueError"

(***************************************************************************)
(* C5.  With current_spend > 0, current_leads > 0 and                      *)
(* spend_change_percent = 0, for every elasticity, the forecast returns    *)
(* new_spend = current_spend, new_leads = current_leads,                   *)
(* spend_change_absolute = 0, leads_change_absolute = 0,                   *)
(* lead_change_percent = 0 and efficiency_factor = 100.0.                  *)
(***************************************************************************)
UnchangedForecast(cs, cl, r) ==
    /\ r.current_spend = 100 * cs
    /\ r.new_spend = 100 * cs
    /\ r.current_leads = 100 * cl
    /\ r.new_leads = 100 * cl
    /\ r.spend_change_absolute = 0
    /\ r.leads_change_absolute = 0
    /\ r.lead_change_percent = 0
    /\ r.efficiency_factor = 1000

C5_ZeroChange ==
    /\ ( /\ op = "forecast_leads"
         /\ req.current_spend > 0 /\ req.current_leads > 0
         /\ req.spend_change_percent = 0 )
       => ( /\ resp.exc = "none"
            /\ UnchangedForecast(req.current_spend, req.current_leads, resp.val) )
    /\ ( /\ op = "api_forecast"
         /\ ForecastParses /\ ForecastInRange
         /\ ValueOr0(req.spend_change_percent) = 0 )
       => ( /\ resp.status = 200
            /\ UnchangedForecast(req.current_spend.v, req.current_leads.v, resp.body) )

C5_Witness ==
    /\ op = "forecast_leads"
    /\ req.current_spend = MaxSpend
    /\ req.current_leads = MaxLeads
    /\ req.spend_change_percent = 0
    /\ req.elasticity = 82
    /\ resp.exc = "none"
    /\ resp.val.new_leads = 100 * MaxLeads

(***************************************************************************)
(* C6.  Elasticity is clamped into [0.5, 1.0] in both functions: with the  *)
(* other inputs fixed, an elasticity >= 1.0 gives exactly the outcome of   *)
(* 1.0, an elasticity <= 0.5 exactly the outcome of 0.5, the echoed        *)
(* elasticity of every result lies in [0.5, 1.0], and a request that omits *)
(* elasticity is answered as one with elasticity 0.82.                     *)
(***************************************************************************)
ClampedTo(e) == IF e >= 100 THEN 100 ELSE IF e <= 50 THEN 50 ELSE e

C6_ElasticityClamped ==
    /\ op = "forecast_leads"
       => /\ resp = forecast_leads(req.current_spend, req.current_leads,
                                   req.spend_change_percent, ClampedTo(req.elasticity))
          /\ resp.exc = "none" => resp.val.elasticity \in 50..100
    /\ op = "forecast_incremental"
       => /\ resp = forecast_incremental(req.current_budget, req.current_cpa,
                                         Frac(req.additional_funds, 1),
                                         ClampedTo(req.elasticity), req.current_visits)
          /\ resp.exc = "none" => resp.val.elasticity \in 50..100
    /\ op = "api_forecast"
       => /\ IsNum(req.elasticity) =>
                resp = api_forecast([req EXCEPT !.elasticity = Num(ClampedTo(@.v))])
          /\ req.elasticity = Absent =>
                resp = api_forecast([req EXCEPT !.elasticity = Num(82)])
          /\ resp.status = 200 => resp.body.elasticity \in 50..100
          /\ (resp.status = 200 /\ req.elasticity = Absent) => resp.body.elasticity = 82
    /\ op = "api_forecast_incremental"
       => /\ IsNum(req.elasticity) =>
                resp = api_forecast_incremental(
                           [req EXCEPT !.elasticity = Num(ClampedTo(@.v))])
          /\ req.elasticity = Absent =>
                resp = api_forecast_incremental([req EXCEPT !.elasticity = Num(82)])
          /\ resp.status = 200 => resp.body.elasticity \in 50..100
          /\ (resp.status = 200 /\ req.elasticity = Absent) => resp.body.elasticity = 82

C6_Witness ==
    /\ op = "forecast_leads"
    /\ req.elasticity = 500
    /\ req.current_spend = MaxSpend
    /\ req.current_leads = MaxLeads
    /\ req.spend_change_percent = 5000
    /\ resp.exc = "none"
    /\ resp.val.elasticity = 100
    /\ resp.val.new_leads = 150 * MaxLeads

(***************************************************************************)
(* C7.  With elasticity 1.0 (or clamped to 1.0), current_spend > 0,        *)
(* current_leads > 0 and spend_change_percent > -100, the returned         *)
(* lead_change_percent equals the returned spend_change_percent, new_cpl   *)
(* equals current_cpl and cpl_change_percent is 0.                         *)
(***************************************************************************)
LinearForecast(r) ==
    /\ r.lead_change_percent = r.spend_change_percent
    /\ r.new_cpl = r.current_cpl
    /\ r.cpl_change_percent = 0

C7_LinearAtElasticityOne ==
    /\ ( /\ op = "forecast_leads"
         /\ req.current_spend > 0 /\ req.current_leads > 0
         /\ req.spend_change_percent > -10000
         /\ req.elasticity >= 100 )
       => (resp.exc = "none" /\ LinearForecast(resp.val))
    /\ ( /\ op = "api_forecast"
         /\ ForecastParses /\ ForecastInRange
         /\ ValueOr0(req.spend_change_percent) > -10000
         /\ IsNum(req.elasticity) /\ req.elasticity.v >= 100 )
       => (resp.status = 200 /\ LinearForecast(resp.body))

C7_Witness ==
    /\ op = "forecast_leads"
    /\ req.current_spend = MaxSpend
    /\ req.current_leads = 1
    /\ req.spend_change_percent = -5000
    /\ req.elasticity = 100
    /\ resp.exc = "none"
    /\ resp.val.lead_change_percent = -5000
    /\ resp.val.new_cpl = 100 * MaxSpend

(***************************************************************************)
(* C8.  Monotonicity of forecast_leads, as claimed: for fixed              *)
(* current_spend > 0, current_leads > 0 and elasticity < 1, and any        *)
(* p1 < p2, the new_leads returned for p2 is strictly greater than the     *)
(* new_leads returned for p1.                                              *)
(***************************************************************************)
LaterPcts == {p \in PctVals : p > req.spend_change_percent}
ForecastAt(p) ==
    forecast_leads(req.current_spend, req.current_leads, p, req.elasticity)
MonotoneCase ==
    /\ op = "forecast_leads"
    /\ req.current_spend > 0 /\ req.current_leads > 0
    /\ req.elasticity < 100

C8_StrictlyIncreasing ==
    (MonotoneCase /\ resp.exc = "none") =>
        \A p2 \in LaterPcts :
            ForecastAt(p2).exc = "none" =>
                ForecastAt(p2).val.new_leads > resp.val.new_leads

(***************************************************************************)
(* C8, amended.  For fixed current_spend > 0, current_leads > 0 and        *)
(* elasticity < 1, and any p1 < p2: if the forecast for p1 returns a       *)
(* result then so does the forecast for p2, and its new_leads (rounded to  *)
(* 2 decimals) is greater than or equal to that for p1.                    *)
(***************************************************************************)
C8_WeaklyIncreasing ==
    (MonotoneCase /\ resp.exc = "none") =>
        \A p2 \in LaterPcts :
            /\ ForecastAt(p2).exc = "none"
            /\ ForecastAt(p2).val.new_leads >= resp.val.new_leads

\* 0% and 0.5% on one lead both return new_leads 1.0
C8_Witness ==
    /\ MonotoneCase
    /\ req.current_leads = 1
    /\ req.spend_change_percent = 0
    /\ req.elasticity = 82
    /\ resp.exc = "none"
    /\ ForecastAt(50).exc = "none"
    /\ ForecastAt(50).val.new_leads = resp.val.new_leads
    /\ ForecastAt(1000).val.new_leads > resp.val.new_leads

(***************************************************************************)
(* C9.  On every successful POST /api/forecast-incremental: period_days is *)
(* an integer >= 1 (absent or empty gives 1, a fraction is truncated, a    *)
(* value below 1 gives 1); total_additional_funds is the additional_funds  *)
(* of the request; daily_additional_funds is total_additional_funds /      *)
(* period_days (to the cent); and the model runs on the daily figure:      *)
(* new_spend = current_budget + daily_additional_funds.                    *)
(***************************************************************************)
\* period_days expected for a request value given in tenths of a day
ExpectedPeriod(x) ==
    IF x.k # "num" \/ x.v < 10 THEN 1 ELSE x.v \div 10
Abs(x) == IF x >= 0 THEN x ELSE -x

C9_PeriodAndDailyFunds ==
    (op = "api_forecast_incremental" /\ resp.status = 200) =>
        LET b == resp.body
            funds == ValueOr0(req.additional_funds)
        IN  /\ b.period_days >= 1
            /\ b.period_days = ExpectedPeriod(req.period_days)
            /\ b.total_additional_funds = 100 * funds
            \* daily is total / period_days to the nearest hundredth
            /\ 2 * Abs(b.daily_additional_funds * b.period_days
                       - b.total_additional_funds) <= b.period_days
            /\ b.additional_funds = b.daily_additional_funds
            /\ b.new_spend = b.current_budget + b.daily_additional_funds
            /\ b.current_budget = 100 * req.current_budget.v

\* budget 100, CPA 10, funds 20 over 10 days: daily 2.00, new_spend 102.00
C9_Witness ==
    /\ op = "api_forecast_incremental"
    /\ resp.status = 200
    /\ req.current_budget = Num(MaxBudget)
    /\ req.additional_funds = Num(MaxFunds)
    /\ req.period_days = Num(10 * MaxPeriod)
    /\ resp.body.period_days = MaxPeriod
    /\ resp.body.daily_additional_funds * MaxPeriod = 100 * MaxFunds
    /\ resp.body.new_spend = 100 * MaxBudget + resp.body.daily_additional_funds

(***************************************************************************)
(* C10.  In every result of forecast_leads or forecast_incremental the     *)
(* efficiency_factor lies in [0.0, 200.0], and it is exactly 100.0 when    *)
(* the spend change is zero (spend_change_percent = 0, additional_funds =  *)
(* 0).                                                                     *)
(***************************************************************************)
C10_EfficiencyRange ==
    /\ (op \in {"forecast_leads", "forecast_incremental"} /\ resp.exc = "none")
          => resp.val.efficiency_factor \in 0..2000
    /\ (op \in {"api_forecast", "api_forecast_incremental"} /\ resp.status = 200)
          => resp.body.efficiency_factor \in 0..2000
    /\ (op = "forecast_leads" /\ resp.exc = "none" /\ req.spend_change_percent = 0)
          => resp.val.efficiency_factor = 1000
    /\ (op = "forecast_incremental" /\ resp.exc = "none" /\ req.additional_funds = 0)
          => resp.val.efficiency_factor = 1000
    /\ (op = "api_forecast" /\ resp.status = 200
          /\ ValueOr0(req.spend_change_percent) = 0)
          => resp.body.efficiency_factor = 1000
    /\ (op = "api_forecast_incremental" /\ resp.status = 200
          /\ ValueOr0(req.additional_funds) = 0)
          => resp.body.efficiency_factor = 1000

C10_Witness ==
    /\ op = "forecast_incremental"
    /\ resp.exc = "none"
    /\ req.current_budget = MaxBudget
    /\ req.additional_funds = MaxFunds
    /\ req.elasticity = 50
    /\ resp.val.efficiency_factor \in 1..999

====
